---- MODULE Spec2Model ----
(***************************************************************************)
(* StandOutSearcher (src/jobspy/scrapers/standoutsearch/__init__.py):      *)
(* the pagination loop of scrape, the listing extraction of                *)
(* _find_jobs_in_page and _process_job, and the label lookup of            *)
(* _parse_job_details.                                                     *)
(*                                                                         *)
(* Texts, URLs and Python's None are tuples of strings, so that any two    *)
(* of them can be compared.  A text is the tuple of its characters.        *)
(***************************************************************************)
EXTENDS Integers, Sequences, FiniteSets, TLC

VARIABLES
    quota,        \* scraper_input.results_wanted
    pc,           \* position of the call: loop, page, done, raised, parse, parsed
    page,         \* scrape: page
    job_list,     \* scrape: job_list
    containers,   \* _find_jobs_in_page: containers not yet processed
    jobs_list,    \* _find_jobs_in_page: jobs_list
    result,       \* JobResponse.jobs of the returned response
    error,        \* the exception that ended the call, None when none
    listingLog,   \* history: one entry per session.get of a listing page
    detailLog,    \* history: one entry per fetch_html of a detail page
    html,         \* _parse_job_details: the detail page given
    details       \* _parse_job_details: the JobPost returned

vars == <<quota, pc, page, job_list, containers, jobs_list, result, error,
          listingLog, detailLog, html, details>>

-----------------------------------------------------------------------------
(* Bounds *)

MaxQuota == 3
MaxContainers == 3

-----------------------------------------------------------------------------
(* Values *)

None == <<"None">>

Fields == {"location", "address", "mode", "description"}

\* get_text(strip=True) of an element holding one text node
RECURSIVE LStrip(_)
LStrip(t) == IF t # <<>> /\ Head(t) = " " THEN LStrip(Tail(t)) ELSE t

RECURSIVE RStrip(_)
RStrip(t) == IF t # <<>> /\ t[Len(t)] = " "
             THEN RStrip(SubSeq(t, 1, Len(t) - 1)) ELSE t

Strip(t) == RStrip(LStrip(t))

get_text(elem) == Strip(elem)

\* the elements of a job container, each by its text, None when find() misses
Container(t, c, d, h) == [title |-> t, company_name |-> c, deadline |-> d, href |-> h]

G1 == Container(<<" ", "A">>, <<"c", " ">>, <<"d">>, <<"/job/1">>)
G2 == Container(<<"B">>, <<"c", " ">>, None, <<"/job/2">>)
NoTitle == Container(None, <<"c", " ">>, None, <<"/job/3">>)
NoCompany == Container(<<"B">>, None, <<"d">>, <<"/job/4">>)
NoLink == Container(<<" ", "A">>, <<"c", " ">>, None, None)

ContainerSet == {G1, G2, NoTitle, NoCompany, NoLink}

RECURSIVE SeqsUpTo(_, _)
SeqsUpTo(S, n) ==
    IF n = 0 THEN {<<>>}
    ELSE LET shorter == SeqsUpTo(S, n - 1)
         IN  shorter \cup {Append(s, x) : s \in {q \in shorter : Len(q) = n - 1}, x \in S}

PageBodies == SeqsUpTo(ContainerSet, MaxContainers)
ErrorBodies == {<<>>, <<G1>>}
Statuses == {200, 204, 404}

\* a detail page: for each label, whether the label element is there and the
\* sibling elements that follow it, each a <<tag, text>>
Elem(tag, text) == <<tag, text>>
Sp == Elem("span", <<" ", "x">>)
Pa == Elem("p", <<"y", " ">>)
SiblingLists == {<<>>, <<Sp>>, <<Pa>>, <<Sp, Pa>>, <<Pa, Sp>>}
Absent == [label |-> FALSE, siblings |-> <<>>]
LabelStates == {Absent} \cup {[label |-> TRUE, siblings |-> s] : s \in SiblingLists}
DetailPages == [Fields -> LabelStates]

Present(s) == [label |-> TRUE, siblings |-> s]
FullPage == [f \in Fields |-> Present(<<Sp, Pa>>)]
BarePage == [f \in Fields |-> Absent]
BrokenPage == [f \in Fields |-> IF f = "mode" THEN Present(<<Pa>>) ELSE Absent]

\* the detail pages the site may answer for a job URL
SiteDetailPages(url) ==
    IF url = <<"/job/1">> THEN {FullPage} ELSE {BarePage, BrokenPage}

NoPage == BarePage
NoDetails == [f \in Fields |-> None]

-----------------------------------------------------------------------------
(* _parse_job_details *)

SiblingTag(f) == IF f \in {"location", "mode"} THEN "span" ELSE "p"

\* find_next_sibling(tag): the first following sibling with that tag, or None
RECURSIVE find_next_sibling(_, _)
find_next_sibling(sibs, tag) ==
    IF sibs = <<>> THEN None
    ELSE IF Head(sibs)[1] = tag THEN Head(sibs)
    ELSE find_next_sibling(Tail(sibs), tag)

\* X_elem.find_next_sibling(tag).get_text(strip=True) if X_elem else None
FieldRaises(h, label, f) ==
    h[label].label /\ find_next_sibling(h[label].siblings, SiblingTag(f)) = None

FieldValue(h, label, f) ==
    IF h[label].label
    THEN get_text(find_next_sibling(h[label].siblings, SiblingTag(f))[2])
    ELSE None

LabelOfMut(f) == IF f = "address" THEN "location" ELSE f

\* the label each field is looked up by
LabelOf(f) == f

ParseRaises(h) == \E f \in Fields : FieldRaises(h, LabelOf(f), f)

_parse_job_details(h) == [f \in Fields |-> FieldValue(h, LabelOf(f), f)]

-----------------------------------------------------------------------------
(* _process_job *)

Raise == <<"raise">>

MandatoryTextMut(elem) == IF elem = None THEN None ELSE get_text(elem)

\* container.find(...).get_text(strip=True): None has no get_text
MandatoryText(elem) == IF elem = None THEN Raise ELSE get_text(elem)

\* X_elem.get_text(strip=True) if X_elem else None
OptionalText(elem) == IF elem = None THEN None ELSE get_text(elem)

\* container.find('a', ...)['href']: None is not subscriptable
MandatoryAttr(attr) == IF attr = None THEN Raise ELSE attr

\* the exception _process_job raises on the container before any fetch
ProcessError(c) ==
    IF MandatoryText(c.title) = Raise \/ MandatoryText(c.company_name) = Raise
    THEN <<"AttributeError">>
    ELSE IF MandatoryAttr(c.href) = Raise THEN <<"TypeError">>
    ELSE None

JobPost(c, d) ==
    [title |-> MandatoryText(c.title),
     company_name |-> MandatoryText(c.company_name),
     deadline |-> OptionalText(c.deadline),
     job_url |-> MandatoryAttr(c.href),
     location |-> d.location,
     address |-> d.address,
     mode |-> d.mode,
     description |-> d.description]

-----------------------------------------------------------------------------
(* scrape *)

QuotaMetMut(jl, q) == Len(jl) > q

\* len(job_list) >= scraper_input.results_wanted
QuotaMet(jl, q) == Len(jl) >= q

TruncateMut(jl, q) == jl

TruncateLastMut(jl, q) ==
    SubSeq(jl, IF Len(jl) < q THEN 1 ELSE Len(jl) - q + 1, Len(jl))

\* job_list[: scraper_input.results_wanted], results_wanted >= 0
Truncate(jl, q) == SubSeq(jl, 1, IF Len(jl) < q THEN Len(jl) ELSE q)

ExtendMut(jl, js) == js \o jl

\* job_list.extend(jobs_on_page)
Extend(jl, js) == jl \o js

StatusOkMut(s) == TRUE

\* not (res.status_code != 200)
StatusOk(s) == s = 200

\* if jobs_on_page
PageYieldsJobs(js) == js # <<>>

NextPageMut(p) == p

\* page += 1
NextPage(p) == p + 1

\* history entry of one listing GET: page asked, status and number of
\* containers answered, whether the GET raised, len(job_list) at that time
LogGet(p, s, n, r) ==
    [page |-> p, status |-> s, n |-> n, raised |-> r, collected |-> Len(job_list)]

Init ==
    /\ quota \in 0..MaxQuota
    /\ pc = "loop"
    /\ page = 1
    /\ job_list = <<>>
    /\ containers = <<>>
    /\ jobs_list = <<>>
    /\ result = <<>>
    /\ error = None
    /\ listingLog = <<>>
    /\ detailLog = <<>>
    /\ html = NoPage
    /\ details = NoDetails

\* the break of the quota test, then the return
ScrapeQuotaMet ==
    /\ pc = "loop"
    /\ QuotaMet(job_list, quota)
    /\ result' = Truncate(job_list, quota)
    /\ pc' = "done"
    /\ UNCHANGED <<quota, page, job_list, containers, jobs_list, error,
                   listingLog, detailLog, html, details>>

\* session.get raises: nothing catches it
FindJobsGetRaises ==
    /\ pc = "loop"
    /\ ~QuotaMet(job_list, quota)
    /\ listingLog' = Append(listingLog, LogGet(page, 0, 0, TRUE))
    /\ error' = <<"ConnectionError">>
    /\ pc' = "raised"
    /\ UNCHANGED <<quota, page, job_list, containers, jobs_list, result,
                   detailLog, html, details>>

\* status other than 200: _find_jobs_in_page returns the empty jobs_list
FindJobsBadStatus ==
    /\ pc = "loop"
    /\ ~QuotaMet(job_list, quota)
    /\ \E s \in Statuses, body \in ErrorBodies :
         /\ ~StatusOk(s)
         /\ listingLog' = Append(listingLog, LogGet(page, s, Len(body), FALSE))
    /\ containers' = <<>>
    /\ jobs_list' = <<>>
    /\ pc' = "page"
    /\ UNCHANGED <<quota, page, job_list, result, error, detailLog, html, details>>

\* status 200: the loop over the containers of the body starts
FindJobsOk ==
    /\ pc = "loop"
    /\ ~QuotaMet(job_list, quota)
    /\ \E s \in Statuses, body \in PageBodies :
         /\ s # 200 => body \in ErrorBodies
         /\ StatusOk(s)
         /\ listingLog' = Append(listingLog, LogGet(page, s, Len(body), FALSE))
         /\ containers' = body
    /\ jobs_list' = <<>>
    /\ pc' = "page"
    /\ UNCHANGED <<quota, page, job_list, result, error, detailLog, html, details>>

\* a find() of a mandatory element misses: the exception leaves scrape
ProcessJobMalformed ==
    /\ pc = "page"
    /\ containers # <<>>
    /\ ProcessError(Head(containers)) # None
    /\ error' = ProcessError(Head(containers))
    /\ pc' = "raised"
    /\ UNCHANGED <<quota, page, job_list, containers, jobs_list, result,
                   listingLog, detailLog, html, details>>

\* history entry of one fetch_html: the page and position of the container
\* it is for, the container, the detail page answered, whether it raised
LogDetail(c, h, r) ==
    [page |-> page, idx |-> listingLog[Len(listingLog)].n - Len(containers) + 1,
     container |-> c, html |-> h, raised |-> r]

\* fetch_html raises
ProcessJobFetchRaises ==
    /\ pc = "page"
    /\ containers # <<>>
    /\ ProcessError(Head(containers)) = None
    /\ detailLog' = Append(detailLog, LogDetail(Head(containers), NoPage, TRUE))
    /\ error' = <<"DetailFetchError">>
    /\ pc' = "raised"
    /\ UNCHANGED <<quota, page, job_list, containers, jobs_list, result,
                   listingLog, html, details>>

\* a label of the detail page has no sibling of its tag
ProcessJobParseRaises ==
    /\ pc = "page"
    /\ containers # <<>>
    /\ ProcessError(Head(containers)) = None
    /\ \E h \in SiteDetailPages(Head(containers).href) :
         /\ ParseRaises(h)
         /\ detailLog' = Append(detailLog, LogDetail(Head(containers), h, FALSE))
    /\ error' = <<"AttributeError">>
    /\ pc' = "raised"
    /\ UNCHANGED <<quota, page, job_list, containers, jobs_list, result,
                   listingLog, html, details>>

ProcessJobOk ==
    /\ pc = "page"
    /\ containers # <<>>
    /\ ProcessError(Head(containers)) = None
    /\ \E h \in SiteDetailPages(Head(containers).href) :
         /\ ~ParseRaises(h)
         /\ detailLog' = Append(detailLog, LogDetail(Head(containers), h, FALSE))
         /\ jobs_list' = Append(jobs_list, JobPost(Head(containers), _parse_job_details(h)))
    /\ containers' = Tail(containers)
    /\ UNCHANGED <<quota, pc, page, job_list, result, error, listingLog, html, details>>

\* _find_jobs_in_page returns; scrape extends and goes on, or breaks and returns
PageDone ==
    /\ pc = "page"
    /\ containers = <<>>
    /\ IF PageYieldsJobs(jobs_list)
       THEN /\ job_list' = Extend(job_list, jobs_list)
            /\ page' = NextPage(page)
            /\ pc' = "loop"
            /\ UNCHANGED result
       ELSE /\ result' = Truncate(job_list, quota)
            /\ pc' = "done"
            /\ UNCHANGED <<job_list, page>>
    /\ jobs_list' = <<>>
    /\ UNCHANGED <<quota, containers, error, listingLog, detailLog, html, details>>

Next ==
    \/ ScrapeQuotaMet
    \/ FindJobsGetRaises
    \/ FindJobsBadStatus
    \/ FindJobsOk
    \/ ProcessJobMalformed
    \/ ProcessJobFetchRaises
    \/ ProcessJobParseRaises
    \/ ProcessJobOk
    \/ PageDone

Spec == Init /\ [][Next]_vars

FairSpec == Spec /\ WF_vars(Next)

-----------------------------------------------------------------------------
(* _parse_job_details on its own *)

InitParse ==
    /\ quota = 0
    /\ pc = "parse"
    /\ page = 1
    /\ job_list = <<>>
    /\ containers = <<>>
    /\ jobs_list = <<>>
    /\ result = <<>>
    /\ error = None
    /\ listingLog = <<>>
    /\ detailLog = <<>>
    /\ html \in DetailPages
    /\ details = NoDetails

ParseOk ==
    /\ pc = "parse"
    /\ ~ParseRaises(html)
    /\ details' = _parse_job_details(html)
    /\ pc' = "parsed"
    /\ UNCHANGED <<quota, page, job_list, containers, jobs_list, result, error,
                   listingLog, detailLog, html>>

ParseFails ==
    /\ pc = "parse"
    /\ ParseRaises(html)
    /\ error' = <<"AttributeError">>
    /\ pc' = "raised"
    /\ UNCHANGED <<quota, page, job_list, containers, jobs_list, result,
                   listingLog, detailLog, html, details>>

NextParse == ParseOk \/ ParseFails

SpecParse == InitParse /\ [][NextParse]_vars

-----------------------------------------------------------------------------
(* Properties *)

Returned == pc = "done"

Last(s) == s[Len(s)]

\* the first n entries of s, all of s when it is shorter
Take(s, n) == [i \in 1..(IF Len(s) < n THEN Len(s) ELSE n) |-> s[i]]

IsPrefix(s, t) == Len(s) <= Len(t) /\ \A i \in 1..Len(s) : s[i] = t[i]

NonSuccess(status) == status < 200 \/ status >= 300

\* the text the detail page shows for field f: of the first sibling after the
\* label that is a span (location, mode) or a p (address, description); a
\* value that is no text when there is none
ShownText(h, f) ==
    LET tag == IF f = "location" \/ f = "mode" THEN "span" ELSE "p"
        sibs == h[f].siblings
        at == {i \in 1..Len(sibs) : sibs[i][1] = tag}
    IN  IF at = {} THEN <<"no sibling">>
        ELSE Strip(sibs[CHOOSE i \in at : \A j \in at : i <= j][2])

HasSibling(h, f) ==
    LET tag == IF f = "location" \/ f = "mode" THEN "span" ELSE "p"
    IN  \E i \in 1..Len(h[f].siblings) : h[f].siblings[i][1] = tag

\* the record expected of one detail fetch that did not raise
RecordOf(e) ==
    [title |-> Strip(e.container.title),
     company_name |-> Strip(e.container.company_name),
     deadline |-> IF e.container.deadline = None THEN None
                  ELSE Strip(e.container.deadline),
     job_url |-> e.container.href,
     location |-> IF e.html.location.label THEN ShownText(e.html, "location") ELSE None,
     address |-> IF e.html.address.label THEN ShownText(e.html, "address") ELSE None,
     mode |-> IF e.html.mode.label THEN ShownText(e.html, "mode") ELSE None,
     description |-> IF e.html.description.label THEN ShownText(e.html, "description")
                     ELSE None]

\* the records of the detail fetches of the listing pages before page p
RecordsBefore(p) ==
    LET es == SelectSeq(detailLog, LAMBDA e : e.page < p)
    IN  [i \in 1..Len(es) |-> RecordOf(es[i])]

AllRecords == [i \in 1..Len(detailLog) |-> RecordOf(detailLog[i])]

\* the detail fetches are in page order, and within a page in container order
InPageOrder ==
    \A i \in 1..Len(detailLog) - 1 :
        \/ detailLog[i].page < detailLog[i + 1].page
        \/ /\ detailLog[i].page = detailLog[i + 1].page
           /\ detailLog[i].idx < detailLog[i + 1].idx

\* C1: the sequence scrape returns is no longer than the quota.
C1_LengthAtMostQuota == Returned => Len(result) <= quota

C1_Witness == Returned /\ quota > 0 /\ Len(job_list) > quota /\ Len(result) = quota

\* a listing page that answered a non-success status or no container
EndsPagination(e) == ~e.raised /\ (NonSuccess(e.status) \/ e.n = 0)

\* C2: a listing page that answers a non-success status or no container is
\* the last one fetched, no job is extracted from it, and the result holds
\* only jobs of the pages before it; with 2 containers on page 1, none on
\* page 2 and a quota above 2, the result has 2 records and 2 listing GETs
\* were made.
C2_StopsAtEmptyPage ==
    /\ \A i \in 1..Len(listingLog) :
         EndsPagination(listingLog[i]) =>
           /\ \A j \in 1..Len(listingLog) :
                j # i => listingLog[j].page < listingLog[i].page
           /\ \A k \in 1..Len(detailLog) : detailLog[k].page < listingLog[i].page
           /\ pc \in {"page", "done"}
           /\ Returned => IsPrefix(result, RecordsBefore(listingLog[i].page))
    /\ ( /\ Returned
         /\ quota > 2
         /\ listingLog # <<>>
         /\ listingLog[1].page = 1 /\ listingLog[1].status = 200 /\ listingLog[1].n = 2
         /\ \E i \in 1..Len(listingLog) :
              listingLog[i].page = 2 /\ ~listingLog[i].raised /\ listingLog[i].n = 0 )
       => Len(result) = 2 /\ Len(listingLog) = 2

C2_Witness ==
    /\ Returned
    /\ quota > 2
    /\ Len(listingLog) = 2
    /\ listingLog[1].n = 2
    /\ listingLog[2].status = 200 /\ listingLog[2].n = 0
    /\ Len(result) = 2

\* C3: a listing page is fetched only when fewer than quota records are
\* collected (so none at all when the quota is 0).
C3_NoFetchOnceQuotaMet ==
    [][Len(listingLog') > Len(listingLog) => Len(job_list) < quota]_vars

C3_Witness ==
    /\ Returned
    /\ listingLog # <<>>
    /\ Last(listingLog).collected = quota - 1
    /\ Len(job_list) > quota

TransportError(e) == e.raised \/ NonSuccess(e.status)

\* C5: after a transport error on a listing page (non-2xx status or an
\* exception of the fetch) scrape does not fail: it stops paginating and
\* returns what it has collected, truncated to the quota.
C5_TransportErrorEndsPagination ==
    (listingLog # <<>> /\ TransportError(Last(listingLog)) /\ pc \in {"done", "raised"})
        => /\ Returned
           /\ error = None
           /\ result = Take(job_list, quota)

Malformed(c) == c.title = None \/ c.company_name = None \/ c.href = None

\* C6: a container that lacks the title, the company name or the link is
\* skipped: it does not end the extraction of the page or the scrape.
C6_MalformedContainerSkipped ==
    ~(pc = "raised" /\ containers # <<>> /\ Malformed(Head(containers)))

ThreeOnPageOne ==
    /\ Returned
    /\ quota = 1
    /\ listingLog # <<>>
    /\ listingLog[1].page = 1 /\ listingLog[1].status = 200 /\ listingLog[1].n = 3

FirstContainerOnly ==
    /\ Len(result) = 1
    /\ detailLog # <<>>
    /\ detailLog[1].page = 1 /\ detailLog[1].idx = 1
    /\ result[1] = RecordOf(detailLog[1])

\* C7 as stated: with quota 1 and 3 containers on page 1, one record (the
\* first container's) is returned and one detail page is fetched.
C7_OneDetailFetch ==
    ThreeOnPageOne => FirstContainerOnly /\ Len(detailLog) = 1

\* C7: with quota 1 and 3 containers on page 1, a scrape that returns
\* returns one record, the first container's, and has fetched three detail
\* pages, one per container of the page in container order.
C7_DetailFetchPerContainer ==
    ThreeOnPageOne =>
        /\ FirstContainerOnly
        /\ Len(listingLog) = 1
        /\ Len(detailLog) = 3
        /\ \A k \in 1..3 : detailLog[k].page = 1 /\ detailLog[k].idx = k

C7_Witness ==
    /\ ThreeOnPageOne
    /\ Len(detailLog) = 3
    /\ detailLog[1].container # detailLog[3].container

\* C8: each of the four detail fields is the stripped text of the sibling
\* element of its label when the label is on the page and null when it is
\* not, whatever the other three labels are; the parse raises only for a
\* label that is there without such a sibling.
C8_DetailFields ==
    /\ pc = "parsed" =>
         \A f \in Fields :
            details[f] = IF html[f].label THEN ShownText(html, f) ELSE None
    /\ pc = "raised" =>
         \E f \in Fields : html[f].label /\ ~HasSibling(html, f)

C8_Witness ==
    /\ pc = "parsed"
    /\ html.location.label /\ details.location = <<"x">>
    /\ ~html.address.label /\ details.address = None
    /\ html.mode.label /\ html.mode.siblings = <<Pa, Sp>>
    /\ ~html.description.label

\* C9: every record of the returned result has a title and a company name.
C9_TitleAndCompany ==
    Returned => \A i \in 1..Len(result) :
                    result[i].title # None /\ result[i].company_name # None

C9_Witness == Returned /\ Len(result) >= 2 /\ result[1].title # result[2].title

\* the listing pages are fetched as 1, 2, ..., k, once each, with k at most
\* the quota, and more records are collected at each fetch than at the last
FetchesBounded ==
    /\ \A i \in 1..Len(listingLog) : listingLog[i].page = i
    /\ \A i \in 1..Len(listingLog) - 1 :
         listingLog[i].collected < listingLog[i + 1].collected
    /\ Len(listingLog) <= quota

\* C10: scrape terminates, having fetched listing pages 1..k once each with
\* k at most the quota, the collected count growing from fetch to fetch.
C10_Terminates == <>(pc \in {"done", "raised"}) /\ []FetchesBounded

C10_Witness ==
    /\ Returned
    /\ quota = MaxQuota
    /\ Len(listingLog) = quota
    /\ \A i \in 1..Len(listingLog) : listingLog[i].n > 0

====
